---- MODULE Spec2Model ----
(***************************************************************************)
(* ExpectedAgent of agent.py: a Wordle agent that keeps a pool of words    *)
(* still possible, opens with a positional letter-frequency guess and then *)
(* guesses the pool word of least recursive expected utility.              *)
(*                                                                         *)
(* Words are 5-tuples of one-letter strings; Python's position i (0..4)    *)
(* is element i + 1 of the tuple.  Python's float quotients are kept as    *)
(* exact fractions <<numerator, denominator>> in lowest terms.             *)
(***************************************************************************)
EXTENDS Integers, Sequences, FiniteSets, TLC

VARIABLES possible, allowed, pool, allowed_pool,
          op, args, result, raised,
          init_possible, history, first_word, last_next,
          stack, acc, cur, best_utility, best_word, pc

vars == <<possible, allowed, pool, allowed_pool, op, args, result, raised,
          init_possible, history, first_word, last_next,
          stack, acc, cur, best_utility, best_word, pc>>

agent_vars == <<possible, allowed, pool, allowed_pool>>
call_vars == <<op, args, result, raised>>
ghost_vars == <<init_possible, history, first_word, last_next>>
search_vars == <<stack, acc, cur, best_utility, best_word, pc>>

(***************************************************************************)
(* Bounds of the model and the words it plays with.                        *)
(***************************************************************************)
MaxPoolLen == 3
MaxReports == 2

WordLen == 5
BigUtility == 1000000000

ABCDE == <<"A", "B", "C", "D", "E">>
ABCDZ == <<"A", "B", "C", "D", "Z">>
AABBC == <<"A", "A", "B", "B", "C">>
EABCD == <<"E", "A", "B", "C", "D">>

Vocabulary == {ABCDE, ABCDZ, AABBC, EABCD}
VocabularySeq == <<ABCDE, ABCDZ, AABBC, EABCD>>

EmptyWord == <<>>
None == <<"None">>
NotCalled == <<"not called">>

Range(s) == {s[k] : k \in 1..Len(s)}

\* The duplicate-free word lists of at most MaxPoolLen words.
WordLists ==
  {s \in UNION {[1..n -> Vocabulary] : n \in 0..MaxPoolLen} :
     \A j, k \in 1..Len(s) : j # k => s[j] # s[k]}

(***************************************************************************)
(* Exact fractions for the quotients of recursiveUtility.                  *)
(***************************************************************************)
RECURSIVE GCD(_, _)
GCD(a, b) == IF b = 0 THEN a ELSE GCD(b, a % b)

Frac(n, d) == LET g == GCD(n, d) IN IF n = 0 THEN <<0, 1>> ELSE <<n \div g, d \div g>>
FracAdd(x, y) == Frac(x[1] * y[2] + y[1] * x[2], x[2] * y[2])
FracMul(x, y) == Frac(x[1] * y[1], x[2] * y[2])
\* x < y, comparing whole parts first so that BigUtility never gets multiplied.
FracLess(x, y) ==
  LET qx == x[1] \div x[2]
      qy == y[1] \div y[2]
  IN  \/ qx < qy
      \/ qx = qy /\ (x[1] % x[2]) * y[2] < (y[1] % y[2]) * x[2]

(***************************************************************************)
(* updatePool: the green, yellow and gray groups of cur_pool for the       *)
(* letter of guess at position index (0-based), in pool order.             *)
(***************************************************************************)
Contains(word, letter) == \E k \in 1..Len(word) : word[k] = letter

IsGreen(word, guess, index) == guess[index + 1] = word[index + 1]
IsYellow(word, guess, index) ==
  ~IsGreen(word, guess, index) /\ Contains(word, guess[index + 1])
IsGray(word, guess, index) ==
  ~IsGreen(word, guess, index) /\ ~Contains(word, guess[index + 1])

\* updatePool with the tests in the wrong order: a word that has the letter
\* anywhere goes to the yellow group, so the green group stays empty.
updatePool_YellowFirst(cur_pool, guess, index) ==
  LET green(word) == FALSE
      yellow(word) == Contains(word, guess[index + 1])
      gray(word) == IsGray(word, guess, index)
  IN  <<SelectSeq(cur_pool, green), SelectSeq(cur_pool, yellow), SelectSeq(cur_pool, gray)>>

updatePool(cur_pool, guess, index) ==
  LET green(word) == IsGreen(word, guess, index)
      yellow(word) == IsYellow(word, guess, index)
      gray(word) == IsGray(word, guess, index)
  IN  <<SelectSeq(cur_pool, green), SelectSeq(cur_pool, yellow), SelectSeq(cur_pool, gray)>>

(***************************************************************************)
(* recursiveUtility.  A division by zero gives ZeroDivisionError, which    *)
(* every caller up the recursion passes on.                                *)
(***************************************************************************)
ZeroDivisionError == <<"ZeroDivisionError">>
IndexError == <<"IndexError">>

Divide(n, d) == IF d = 0 THEN ZeroDivisionError ELSE Frac(n, d)

\* Errors are 1-tuples, fractions 2-tuples.
IsError(v) == Len(v) = 1

BaseCaseA(p) == Len(p) <= 1
\* The depth test one too far.
BaseCaseB_OffByOne(depth) == depth = 5
BaseCaseB(depth) == depth = 4

\* len(pool) / len(prev_pool) * (u1 + u2 + u3), left to right.
Combine(weight, u1, u2, u3) ==
  IF IsError(weight) THEN weight
  ELSE IF IsError(u1) THEN u1
  ELSE IF IsError(u2) THEN u2
  ELSE IF IsError(u3) THEN u3
  ELSE FracMul(weight, FracAdd(FracAdd(u1, u2), u3))

RECURSIVE recursiveUtility(_, _, _, _)
recursiveUtility(p, depth, prev_pool, guess) ==
  IF BaseCaseA(p) THEN Divide(Len(p), Len(prev_pool))
  ELSE IF BaseCaseB(depth) THEN Frac(Len(p), 1)
  ELSE IF depth + 1 >= Len(guess) THEN IndexError
  ELSE LET new_prev_pool == p
           updated_pools == updatePool(p, guess, depth + 1)
       IN  Combine(Divide(Len(p), Len(new_prev_pool)),
                   recursiveUtility(updated_pools[1], depth + 1, new_prev_pool, guess),
                   recursiveUtility(updated_pools[2], depth + 1, new_prev_pool, guess),
                   recursiveUtility(updated_pools[3], depth + 1, new_prev_pool, guess))

(***************************************************************************)
(* next_guess: the scan of the pool for the first word of least utility.   *)
(***************************************************************************)
\* utility <= best_utility: a later word of equal utility wins.
Better_OrEqual(utility, best) == ~FracLess(best, utility)
Better(utility, best) == FracLess(utility, best)

RECURSIVE NextGuessScan(_, _, _, _)
NextGuessScan(p, k, best, word) ==
  IF k > Len(p) THEN word
  ELSE LET utility == recursiveUtility(p, -1, p, p[k])
       IN  IF Better(utility, best)
           THEN NextGuessScan(p, k + 1, utility, p[k])
           ELSE NextGuessScan(p, k + 1, best, word)

NextGuessWord(p) == NextGuessScan(p, 1, <<BigUtility, 1>>, EmptyWord)

(***************************************************************************)
(* first_guess: the positional letter frequencies, the score of a word,    *)
(* and the scan for the first word of greatest score.                      *)
(***************************************************************************)
FreqDict(p, i, letter) == Cardinality({k \in 1..Len(p) : p[k][i + 1] = letter})

RECURSIVE ScoreFrom(_, _, _)
ScoreFrom(p, word, i) ==
  IF i = WordLen THEN 0 ELSE FreqDict(p, i, word[i + 1]) + ScoreFrom(p, word, i + 1)

Score(p, word) == ScoreFrom(p, word, 0)

\* score >= cur_best_score: a later word of equal score wins.
BetterScore_OrEqual(score, cur_best_score) == score >= cur_best_score
BetterScore(score, cur_best_score) == score > cur_best_score

RECURSIVE FirstGuessScan(_, _, _, _)
FirstGuessScan(p, k, cur_best_score, word) ==
  IF k > Len(p) THEN word
  ELSE IF BetterScore(Score(p, p[k]), cur_best_score)
       THEN FirstGuessScan(p, k + 1, Score(p, p[k]), p[k])
       ELSE FirstGuessScan(p, k + 1, cur_best_score, word)

FirstGuessWord(p) == FirstGuessScan(p, 1, 0, EmptyWord)

(***************************************************************************)
(* filter_possible_words of util: the words of the pool, in order, for     *)
(* which feedback is the feedback of guess.  Feedback follows the          *)
(* docstring of WordleAgent.report_feedback: a letter in its place is      *)
(* green; of the other places of a letter X that is M times in the guess,  *)
(* N times in the target and K times green, min(M, N) - K are yellow and   *)
(* the rest gray.                                                          *)
(***************************************************************************)
Colors == {"green", "yellow", "gray"}

Count(word, letter) == Cardinality({k \in 1..Len(word) : word[k] = letter})
Min(a, b) == IF a < b THEN a ELSE b

IsFeedbackFor(guess, feedback, target) ==
  /\ Len(feedback) = Len(guess)
  /\ \A k \in 1..Len(guess) :
       /\ feedback[k] \in Colors
       /\ feedback[k] = "green" <=> guess[k] = target[k]
  /\ \A letter \in Range(guess) :
       LET greens == Cardinality({k \in 1..Len(guess) : guess[k] = letter /\ guess[k] = target[k]})
           yellows == Cardinality({k \in 1..Len(guess) : guess[k] = letter /\ feedback[k] = "yellow"})
       IN  yellows = Min(Count(guess, letter), Count(target, letter)) - greens

filter_possible_words(guess, feedback, p) ==
  LET keep(word) == IsFeedbackFor(guess, feedback, word)
  IN  SelectSeq(p, keep)

(***************************************************************************)
(* The feedback a caller may report for a guess: the feedback of the guess *)
(* against each word of the possible list, feedback no word gives, and     *)
(* feedback that is too short or has an unknown colour.                    *)
(***************************************************************************)
AllGray == <<"gray", "gray", "gray", "gray", "gray">>
TooShort == <<"green", "green", "green", "green">>
BadColor == <<"green", "green", "green", "green", "purple">>

WellFormed(feedback) ==
  Len(feedback) = WordLen /\ \A k \in 1..Len(feedback) : feedback[k] \in Colors

\* get_feedback of util, giving the yellows of a letter to its leftmost places.
get_feedback(guess, target) ==
  [k \in 1..Len(guess) |->
     LET letter == guess[k]
         greens == Cardinality({j \in 1..Len(guess) : guess[j] = letter /\ target[j] = letter})
         before == Cardinality({j \in 1..(k - 1) : guess[j] = letter /\ target[j] # letter})
     IN  IF target[k] = letter THEN "green"
         ELSE IF before < Count(target, letter) - greens THEN "yellow"
         ELSE "gray"]

FeedbackInputs(guess) ==
  {get_feedback(guess, target) : target \in Range(possible)} \cup {AllGray, TooShort, BadColor}

(***************************************************************************)
(* Ghost state, read by the properties only: init_possible is the list     *)
(* given to the constructor, history the (guess, feedback) pairs reported  *)
(* since construction or the last first_guess, first_word what the very    *)
(* first first_guess returned, last_next what the latest next_guess since  *)
(* the last report_feedback returned.                                      *)
(*                                                                         *)
(* The agent: ExpectedAgent.__init__ and its three methods, each a call    *)
(* that runs to completion.                                                *)
(***************************************************************************)
SearchIdle ==
  /\ stack = <<>>
  /\ acc = None
  /\ cur = 0
  /\ best_utility = None
  /\ best_word = EmptyWord
  /\ pc = "idle"

Init ==
  /\ possible \in WordLists
  /\ allowed = VocabularySeq
  /\ pool = possible
  /\ allowed_pool = allowed
  /\ op = "init"
  /\ args = <<>>
  /\ result = None
  /\ raised = "none"
  /\ init_possible = possible
  /\ history = {}
  /\ first_word = NotCalled
  /\ last_next = NotCalled
  /\ SearchIdle

\* first_guess without line 135: it scans the pool as report_feedback left it.
first_guess_NoReset ==
  /\ pool' = pool
  /\ result' = FirstGuessWord(pool')
  /\ op' = "first_guess"
  /\ args' = <<>>
  /\ raised' = "none"
  /\ history' = {}
  /\ first_word' = IF first_word = NotCalled THEN result' ELSE first_word
  /\ UNCHANGED <<possible, allowed, allowed_pool, init_possible, last_next, search_vars>>

first_guess ==
  /\ pool' = possible
  /\ result' = FirstGuessWord(pool')
  /\ op' = "first_guess"
  /\ args' = <<>>
  /\ raised' = "none"
  /\ history' = {}
  /\ first_word' = IF first_word = NotCalled THEN result' ELSE first_word
  /\ UNCHANGED <<possible, allowed, allowed_pool, init_possible, last_next, search_vars>>

Without(p, word) ==
  LET other(w) == w # word
  IN  SelectSeq(p, other)

\* next_guess that takes the word it returns out of the pool.
next_guess_Removing ==
  /\ result' = NextGuessWord(pool)
  /\ pool' = Without(pool, result')
  /\ op' = "next_guess"
  /\ args' = <<>>
  /\ raised' = "none"
  /\ last_next' = result'
  /\ UNCHANGED <<possible, allowed, allowed_pool, init_possible, history, first_word, search_vars>>

next_guess ==
  /\ result' = NextGuessWord(pool)
  /\ op' = "next_guess"
  /\ args' = <<>>
  /\ raised' = "none"
  /\ last_next' = result'
  /\ UNCHANGED <<agent_vars, init_possible, history, first_word, search_vars>>

\* report_feedback that filters self.possible instead of self.pool.
report_feedback_FromPossible(guess, feedback) ==
  /\ Cardinality(history) < MaxReports
  /\ pool' = filter_possible_words(guess, feedback, possible)
  /\ result' = None
  /\ op' = "report_feedback"
  /\ args' = <<guess, feedback>>
  /\ raised' = "none"
  /\ history' = history \cup {<<guess, feedback>>}
  /\ last_next' = NotCalled
  /\ UNCHANGED <<possible, allowed, allowed_pool, init_possible, first_word, search_vars>>

report_feedback(guess, feedback) ==
  /\ Cardinality(history) < MaxReports
  /\ pool' = filter_possible_words(guess, feedback, pool)
  /\ result' = None
  /\ op' = "report_feedback"
  /\ args' = <<guess, feedback>>
  /\ raised' = "none"
  /\ history' = history \cup {<<guess, feedback>>}
  /\ last_next' = NotCalled
  /\ UNCHANGED <<possible, allowed, allowed_pool, init_possible, first_word, search_vars>>

Next ==
  \/ first_guess
  \/ next_guess
  \/ \E guess \in Range(possible) : \E feedback \in FeedbackInputs(guess) :
       report_feedback(guess, feedback)

Spec == Init /\ [][Next]_vars

(***************************************************************************)
(* The methods called one at a time on an agent with any pool, the         *)
(* recursion of recursiveUtility taken one invocation at a time.  A frame  *)
(* of the stack is one invocation: its arguments, how far it has come      *)
(* (st = 0 on entry, then the number of the child it calls next), and the  *)
(* values of line 214 it has so far.                                       *)
(***************************************************************************)
Frame(p, depth, prev_pool, guess) ==
  [p |-> p, depth |-> depth, prev_pool |-> prev_pool, guess |-> guess,
   st |-> 0, index |-> -1, weight |-> None, updated_pools |-> <<>>, vals |-> <<>>]

Top == stack[Len(stack)]
Pop == SubSeq(stack, 1, Len(stack) - 1)

\* next_guess, lines 170-172.
next_guess_begin ==
  /\ pc = "idle"
  /\ op' = "next_guess"
  /\ args' = <<>>
  /\ best_utility' = <<BigUtility, 1>>
  /\ best_word' = EmptyWord
  /\ cur' = 1
  /\ pc' = "loop"
  /\ UNCHANGED <<agent_vars, ghost_vars, result, raised, stack, acc>>

\* next_guess, lines 174-176: the call for the next word of the pool.
next_guess_call ==
  /\ pc = "loop"
  /\ cur <= Len(pool)
  /\ stack' = <<Frame(pool, -1, pool, pool[cur])>>
  /\ pc' = "call"
  /\ UNCHANGED <<agent_vars, ghost_vars, call_vars, acc, cur, best_utility, best_word>>

\* next_guess, lines 177-179.
next_guess_compare ==
  /\ pc = "compare"
  /\ IF Better(acc, best_utility)
     THEN best_utility' = acc /\ best_word' = pool[cur]
     ELSE UNCHANGED <<best_utility, best_word>>
  /\ cur' = cur + 1
  /\ pc' = "loop"
  /\ UNCHANGED <<agent_vars, ghost_vars, call_vars, stack, acc>>

\* next_guess, line 180.
next_guess_return ==
  /\ pc = "loop"
  /\ cur > Len(pool)
  /\ result' = best_word
  /\ pc' = "done"
  /\ UNCHANGED <<agent_vars, ghost_vars, op, args, raised, stack, acc, cur, best_utility, best_word>>

\* recursiveUtility(self.pool, -1, self.pool, guess) called by itself.
recursiveUtility_begin(guess) ==
  /\ pc = "idle"
  /\ op' = "recursiveUtility"
  /\ args' = <<guess>>
  /\ stack' = <<Frame(pool, -1, pool, guess)>>
  /\ pc' = "call"
  /\ UNCHANGED <<agent_vars, ghost_vars, result, raised, acc, cur, best_utility, best_word>>

\* recursiveUtility, lines 206-209: the two base cases.
recursiveUtility_base ==
  /\ pc = "call"
  /\ Top.st = 0
  /\ BaseCaseA(Top.p) \/ BaseCaseB(Top.depth)
  /\ LET value == IF BaseCaseA(Top.p) THEN Divide(Len(Top.p), Len(Top.prev_pool))
                  ELSE Frac(Len(Top.p), 1)
     IN  IF IsError(value)
         THEN /\ raised' = value[1]
              /\ pc' = "error"
              /\ UNCHANGED <<stack, acc>>
         ELSE /\ acc' = value
              /\ stack' = Pop
              /\ pc' = "return"
              /\ UNCHANGED raised
  /\ UNCHANGED <<agent_vars, ghost_vars, op, args, result, cur, best_utility, best_word>>

\* recursiveUtility, lines 211-214 up to the first recursive call: prev_pool
\* becomes pool, the pool is partitioned and len(pool) / len(prev_pool) taken.
recursiveUtility_partition ==
  /\ pc = "call"
  /\ Top.st = 0
  /\ ~BaseCaseA(Top.p)
  /\ ~BaseCaseB(Top.depth)
  /\ LET new_prev_pool == Top.p
         index == Top.depth + 1
         weight == Divide(Len(Top.p), Len(new_prev_pool))
     IN  IF index >= Len(Top.guess)
         THEN /\ raised' = IndexError[1]
              /\ pc' = "error"
              /\ stack' = [stack EXCEPT ![Len(stack)].index = index]
         ELSE IF IsError(weight)
         THEN /\ raised' = weight[1]
              /\ pc' = "error"
              /\ stack' = [stack EXCEPT ![Len(stack)].index = index,
                                        ![Len(stack)].prev_pool = new_prev_pool]
         ELSE /\ stack' = [stack EXCEPT ![Len(stack)].prev_pool = new_prev_pool,
                                        ![Len(stack)].index = index,
                                        ![Len(stack)].updated_pools = updatePool(Top.p, Top.guess, index),
                                        ![Len(stack)].weight = weight,
                                        ![Len(stack)].st = 1]
              /\ UNCHANGED <<raised, pc>>
  /\ UNCHANGED <<agent_vars, ghost_vars, op, args, result, acc, cur, best_utility, best_word>>

\* recursiveUtility, line 214: the next of the three recursive calls.
recursiveUtility_recurse ==
  /\ pc = "call"
  /\ Top.st \in 1..3
  /\ stack' = Append(stack, Frame(Top.updated_pools[Top.st], Top.depth + 1, Top.prev_pool, Top.guess))
  /\ UNCHANGED <<agent_vars, ghost_vars, call_vars, acc, cur, best_utility, best_word, pc>>

\* recursiveUtility, line 214: the product, once the three calls have returned.
recursiveUtility_combine ==
  /\ pc = "call"
  /\ Top.st = 4
  /\ acc' = Combine(Top.weight, Top.vals[1], Top.vals[2], Top.vals[3])
  /\ stack' = Pop
  /\ pc' = "return"
  /\ UNCHANGED <<agent_vars, ghost_vars, call_vars, cur, best_utility, best_word>>

\* A return of recursiveUtility: to the invocation that called it, to
\* next_guess, or to the caller of the method.
recursiveUtility_return ==
  /\ pc = "return"
  /\ IF stack # <<>>
     THEN /\ stack' = [stack EXCEPT ![Len(stack)].vals = Append(@, acc),
                                    ![Len(stack)].st = @ + 1]
          /\ pc' = "call"
          /\ UNCHANGED result
     ELSE IF op = "next_guess"
     THEN /\ pc' = "compare"
          /\ UNCHANGED <<stack, result>>
     ELSE /\ result' = acc
          /\ pc' = "done"
          /\ UNCHANGED stack
  /\ UNCHANGED <<agent_vars, ghost_vars, op, args, raised, acc, cur, best_utility, best_word>>

\* updatePool(self.pool, guess, index) called by itself.
updatePool_call(guess, index) ==
  /\ pc = "idle"
  /\ op' = "updatePool"
  /\ args' = <<guess, index>>
  /\ result' = updatePool(pool, guess, index)
  /\ pc' = "done"
  /\ UNCHANGED <<agent_vars, ghost_vars, raised, stack, acc, cur, best_utility, best_word>>

NextCalls ==
  \/ next_guess_begin
  \/ next_guess_call
  \/ next_guess_compare
  \/ next_guess_return
  \/ \E guess \in Vocabulary : recursiveUtility_begin(guess)
  \/ recursiveUtility_base
  \/ recursiveUtility_partition
  \/ recursiveUtility_recurse
  \/ recursiveUtility_combine
  \/ recursiveUtility_return
  \/ \E guess \in Vocabulary : \E index \in 0..(WordLen - 1) : updatePool_call(guess, index)

\* A call runs to completion: nothing else is scheduled.
SpecCalls == Init /\ [][NextCalls]_vars /\ WF_vars(NextCalls)

(***************************************************************************)
(* Properties of the agent, checked under Spec.                            *)
(***************************************************************************)
Utility(g) == recursiveUtility(pool, -1, pool, g)

\* C1: on a nonempty pool next_guess returns a pool word of least
\* recursiveUtility(pool, -1, pool, g), the first such word in pool order.
C1_NextGuessIsFirstMinimum ==
  (op = "next_guess" /\ pool # <<>>) =>
    \E j \in 1..Len(pool) :
      /\ result = pool[j]
      /\ \A k \in 1..Len(pool) : ~FracLess(Utility(pool[k]), Utility(pool[j]))
      /\ \A k \in 1..(j - 1) : FracLess(Utility(pool[j]), Utility(pool[k]))

\* next_guess has returned a word that is not the first of the pool and that
\* ties for the least utility with a later word.
C1_Witness ==
  /\ op = "next_guess"
  /\ Len(pool) = 3
  /\ result = pool[2]
  /\ Utility(pool[3]) = Utility(pool[2])
  /\ FracLess(Utility(pool[2]), Utility(pool[1]))

\* C4: on a pool that report_feedback has emptied next_guess fails with
\* EmptyPoolError or returns a sentinel; it never returns the empty word
\* silently.
C4_EmptyPoolIsRejected ==
  (op = "next_guess" /\ pool = <<>> /\ init_possible # <<>>) =>
    (raised = "EmptyPoolError" \/ (result # EmptyWord /\ result \notin Vocabulary))

\* C5: on a nonempty possible list first_guess returns a word of the list of
\* greatest positional-frequency score, the first such word in list order,
\* and never the empty word, every score being at least 5.
C5_FirstGuessIsFirstMaximum ==
  (op = "first_guess" /\ possible # <<>>) =>
    /\ result # EmptyWord
    /\ \A k \in 1..Len(possible) : Score(possible, possible[k]) >= WordLen
    /\ \E j \in 1..Len(possible) :
         /\ result = possible[j]
         /\ \A k \in 1..Len(possible) : Score(possible, possible[k]) <= Score(possible, possible[j])
         /\ \A k \in 1..(j - 1) : Score(possible, possible[k]) < Score(possible, possible[j])

\* first_guess has returned a word that is not the first of the list and
\* that ties for the greatest score with a later word.
C5_Witness ==
  /\ op = "first_guess"
  /\ Len(possible) = 3
  /\ result = possible[2]
  /\ Score(possible, possible[3]) = Score(possible, possible[2])
  /\ Score(possible, possible[1]) < Score(possible, possible[2])

ConsistentWithHistory(word) ==
  \A h \in history : IsFeedbackFor(h[1], h[2], word)

AllGreen == <<"green", "green", "green", "green", "green">>

\* C6: the pool is exactly the words of the initial possible list that are
\* consistent with every (guess, feedback) pair reported since first_guess;
\* no report_feedback makes it grow; all-green feedback for a guess that is
\* in the pool leaves exactly that word.
C6_PoolIsConsistentWords ==
  /\ [](pool = SelectSeq(init_possible, ConsistentWithHistory))
  /\ [][op' = "report_feedback" =>
          /\ Len(pool') <= Len(pool)
          /\ Range(pool') \subseteq Range(pool)
          /\ (args'[2] = AllGreen /\ args'[1] \in Range(pool)) => pool' = <<args'[1]>>]_vars

\* Of a list of three words a first report has left two, and all-green
\* feedback for one of the two has then left that word alone.
C6_Witness ==
  /\ op = "report_feedback"
  /\ args[2] = AllGreen
  /\ pool = <<args[1]>>
  /\ Cardinality(history) = 2
  /\ Len(init_possible) = 3
  /\ \E h \in history : Len(filter_possible_words(h[1], h[2], init_possible)) = 2

\* C7 as stated: next_guess changes neither the pool nor the possible list
\* nor the allowed vocabulary, and two calls of next_guess with no
\* report_feedback between them return the same word.
C7_SameWordUntilReport ==
  [][op' = "next_guess" =>
       /\ UNCHANGED <<pool, possible, allowed, allowed_pool>>
       /\ last_next \in Vocabulary => result' = last_next]_vars

\* C7 as amended: next_guess changes neither the pool nor the possible list
\* nor the allowed vocabulary, and two calls of next_guess with neither
\* report_feedback nor first_guess between them return the same word.
C7_SameWordUntilPoolChanges ==
  [][op' = "next_guess" =>
       /\ UNCHANGED <<pool, possible, allowed, allowed_pool>>
       /\ op = "next_guess" => result' = result]_vars

\* next_guess has been called, with a word for an answer, on a pool that
\* report_feedback has narrowed to some but not all words.
C7_Witness ==
  /\ op = "next_guess"
  /\ result \in Vocabulary
  /\ history # {}
  /\ Len(pool) = 2
  /\ Len(possible) = 3

\* C8: first_guess leaves the pool equal to the possible list as given at
\* construction, same words in the same order, and returns the word the very
\* first call returned.
C8_FirstGuessResets ==
  op = "first_guess" =>
    /\ pool = init_possible
    /\ possible = init_possible
    /\ history = {}
    /\ result = first_word

\* first_guess has been called again after next_guess answered on a pool
\* that report_feedback had narrowed: the answer then was not the one the
\* whole list gives.
C8_Witness ==
  /\ op = "first_guess"
  /\ last_next \in Vocabulary
  /\ last_next # NextGuessWord(init_possible)
  /\ Len(pool) = 3

\* C9: report_feedback with feedback that is not 5 legal outcomes raises
\* MalformedFeedbackError and leaves the pool as it was.
C9_MalformedFeedbackIsRejected ==
  [][(op' = "report_feedback" /\ ~WellFormed(args'[2])) =>
       (raised' = "MalformedFeedbackError" /\ pool' = pool)]_vars

(***************************************************************************)
(* Properties of the methods, checked under SpecCalls.                     *)
(***************************************************************************)
\* The stepwise recursion and scan give what recursiveUtility and
\* NextGuessWord, which the agent's actions use, give.
StepwiseAgrees ==
  /\ (pc = "done" /\ op = "recursiveUtility") => result = recursiveUtility(pool, -1, pool, args[1])
  /\ (pc = "error" /\ op = "recursiveUtility") => recursiveUtility(pool, -1, pool, args[1]) = <<raised>>
  /\ (pc = "done" /\ op = "next_guess") => result = NextGuessWord(pool)

\* C2: the three groups of updatePool(P, G, i) hold each word of P exactly
\* once and |exact| + |elsewhere| + |absent| = |P|; exact holds the words
\* with word[i] = G[i], elsewhere those that contain G[i] but not at i,
\* absent those without G[i]; pool (ABCDE, ABCDZ) with guess ABCDE at
\* position 4 gives (ABCDE), (), (ABCDZ).
C2_UpdatePoolPartitions ==
  op = "updatePool" =>
    LET G == args[1]
        i == args[2]
        exact == Range(result[1])
        elsewhere == Range(result[2])
        absent == Range(result[3])
    IN  /\ Len(result[1]) + Len(result[2]) + Len(result[3]) = Len(pool)
        /\ exact \cup elsewhere \cup absent = Range(pool)
        /\ exact \cap elsewhere = {} /\ exact \cap absent = {} /\ elsewhere \cap absent = {}
        /\ exact = {w \in Range(pool) : w[i + 1] = G[i + 1]}
        /\ elsewhere = {w \in Range(pool) : w[i + 1] # G[i + 1] /\ \E k \in 1..WordLen : w[k] = G[i + 1]}
        /\ absent = {w \in Range(pool) : \A k \in 1..WordLen : w[k] # G[i + 1]}
        /\ (pool = <<ABCDE, ABCDZ>> /\ G = ABCDE /\ i = 4) => result = <<<<ABCDE>>, <<>>, <<ABCDZ>>>>

\* updatePool has split a pool of three words into three groups of one.
C2_Witness ==
  /\ op = "updatePool"
  /\ Len(pool) = 3
  /\ Len(result[1]) = 1
  /\ Len(result[2]) = 1
  /\ Len(result[3]) = 1

\* The reference utility of C3: a sub-pool of size <= 1 gives
\* size / parent_size; with the 5 positions consumed, the size; otherwise
\* (size / parent_size) * (U_exact + U_elsewhere + U_absent), the three
\* groups being those of the sub-pool at the position, taken at the next.
RECURSIVE RefUtility(_, _, _, _)
RefUtility(sub, position, parent_size, guess) ==
  IF Len(sub) <= 1 THEN Frac(Len(sub), parent_size)
  ELSE IF position = WordLen THEN Frac(Len(sub), 1)
  ELSE LET groups == updatePool(sub, guess, position)
       IN  FracMul(Frac(Len(sub), parent_size),
                   FracAdd(FracAdd(RefUtility(groups[1], position + 1, Len(sub), guess),
                                   RefUtility(groups[2], position + 1, Len(sub), guess)),
                           RefUtility(groups[3], position + 1, Len(sub), guess)))

\* C3: for a nonempty pool and any guess, recursiveUtility(pool, -1, pool,
\* guess) is the reference utility of the pool for the guess.
C3_UtilityIsReference ==
  (op = "recursiveUtility" /\ pc = "done" /\ pool # <<>>) =>
    result = RefUtility(pool, 0, Len(pool), args[1])

\* C10: in a call of next_guess every invocation of recursiveUtility has a
\* nonempty prev_pool and a depth in -1..4, updatePool gets a position in
\* 0..4, and nothing is raised; ZeroDivisionError is raised only by the
\* top invocation of a direct call on an empty pool; every call ends.
C10_RecursionIsSafe ==
  /\ [](op = "next_guess" =>
          /\ raised = "none"
          /\ \A k \in 1..Len(stack) :
               /\ Len(stack[k].prev_pool) # 0
               /\ stack[k].depth \in -1..4
               /\ stack[k].depth = k - 2
               /\ stack[k].st > 0 => stack[k].index \in 0..4)
  /\ [](raised # "none" =>
          /\ raised = "ZeroDivisionError"
          /\ op = "recursiveUtility"
          /\ pool = <<>>
          /\ Len(stack) = 1)
  /\ [](Len(stack) <= WordLen + 1)
  /\ <>(pc \in {"done", "error"})

\* In a call of next_guess the recursion stands at its deepest, on a group
\* of two words that the five positions of the guess have not told apart.
C10_Witness ==
  /\ op = "next_guess"
  /\ pc = "call"
  /\ Len(stack) = WordLen + 1
  /\ Top.depth = 4
  /\ Len(Top.p) = 2

====
